---- MODULE Spec2Model ----
(***************************************************************************)
(* Tic-Tac-Toe (3x3 / 4x4): the board, win detection, the three AI        *)
(* difficulties (random, probabilistic win/block, minimax with alpha-beta *)
(* pruning) and the match loop of TicTacToe_Python_Capstone_Project_1.py. *)
(*                                                                         *)
(* Scores are kept in hundredths (1 -> 100, 0.5 -> 50, 0.05 -> 5) so that *)
(* the heuristic's fractions and the terminal scores share one integer    *)
(* scale.  The functions of the program that write the global board are   *)
(* modelled as operators that take the board and give back the board they *)
(* leave behind, write by write, so that a leaked probe mark is visible.  *)
(***************************************************************************)
EXTENDS Integers, Sequences, FiniteSets, TLC

VARIABLES
    BOARD_ROWS,     \* board size (3 or 4); BOARD_COLS and WIN_LEN always equal it
    board,          \* board[r][c] \in {"X", "O", None}
    player,         \* the mark that moves next
    move_history,   \* sequence of <<row, col, mark>>
    move_count,
    game_mode,      \* None, "PVP", "AI_EASY", "AI_MEDIUM", "AI_HARD"
    x_wins, o_wins, draws,
    screen,         \* which loop runs: "menu", "starting" (the head of play_one_game),
                    \* "play", "end"; "call" where a single function is called
    event           \* the input handled, or the call made, by the last step

vars == <<BOARD_ROWS, board, player, move_history, move_count, game_mode,
          x_wins, o_wins, draws, screen, event>>

None == "None"
Marks == {"X", "O"}
AI_MODES == {"AI_EASY", "AI_MEDIUM", "AI_HARD"}
MODES == {"PVP"} \cup AI_MODES

DEFAULT_BOARD_SIZE == 3
BOARD_COLS == BOARD_ROWS
WIN_LEN == BOARD_ROWS

\* Python's range(a, b)
range(a, b) == a .. (b - 1)

max(a, b) == IF a >= b THEN a ELSE b
min(a, b) == IF a <= b THEN a ELSE b

RECURSIVE SumSeq(_)
SumSeq(s) == IF s = <<>> THEN 0 ELSE Head(s) + SumSeq(Tail(s))

count(cells, v) == Cardinality({i \in DOMAIN cells : cells[i] = v})

new_board(n) == [r \in range(0, n) |-> [c \in range(0, n) |-> None]]

\* the cells in row-major order, as the double loops of the program visit them
all_cells == [k \in 1 .. (BOARD_ROWS * BOARD_COLS) |->
                <<(k - 1) \div BOARD_COLS, (k - 1) % BOARD_COLS>>]

empty_cells(b) == SelectSeq(all_cells, LAMBDA p : b[p[1]][p[2]] = None)

\* the number of cells that hold a mark
occupied(b) == BOARD_ROWS * BOARD_COLS - Len(empty_cells(b))

\* the three globals mark_square and the AI moves write
globals == [board |-> board, move_history |-> move_history, move_count |-> move_count]

(***************************************************************************)
(* Board primitives                                                        *)
(***************************************************************************)

\* a Python list index: -n..-1 count from the end, anything else outside 0..n-1 raises
in_list(i, n) == -n <= i /\ i < n
list_index(i, n) == IF i < 0 THEN i + n ELSE i

mark_square(st, row, col, mark) ==
    IF in_list(row, BOARD_ROWS) /\ in_list(col, BOARD_COLS)
    THEN [board |-> [st.board EXCEPT ![list_index(row, BOARD_ROWS)][list_index(col, BOARD_COLS)] = mark],
          move_history |-> Append(st.move_history, <<row, col, mark>>),
          move_count |-> st.move_count + 1]
    ELSE st     \* IndexError raised by the first statement: nothing written

mark_square_raises(row, col) == ~(in_list(row, BOARD_ROWS) /\ in_list(col, BOARD_COLS))

\* available_square without its "board[row][col] is None"
available_square_any(b, row, col) ==
    /\ 0 <= row /\ row < BOARD_ROWS
    /\ 0 <= col /\ col < BOARD_COLS

available_square(b, row, col) ==
    /\ 0 <= row /\ row < BOARD_ROWS
    /\ 0 <= col /\ col < BOARD_COLS
    /\ b[row][col] = None

is_board_full(b) ==
    \A r \in range(0, BOARD_ROWS) : \A c \in range(0, BOARD_COLS) : b[r][c] # None

\* the first pair of S in the order of two nested loops
first_pair(S) == CHOOSE p \in S : \A q \in S : p[1] < q[1] \/ (p[1] = q[1] /\ p[2] <= q[2])

\* get_winning_line without its anti-diagonal loop
get_winning_line_no_anti(b, player_mark) ==
    IF \/ \E r \in range(0, BOARD_ROWS) :
            \/ \A c \in range(0, BOARD_COLS) : b[r][c] = player_mark
            \/ \A c \in range(0, BOARD_COLS) : b[c][r] = player_mark
       \/ \A i \in range(0, BOARD_ROWS) : b[i][i] = player_mark
    THEN <<<<0, 0>>>>
    ELSE <<>>

\* get_winning_line with its vertical checks before its horizontal checks
get_winning_line_cols_first(b, player_mark) ==
    LET H == {p \in range(0, BOARD_ROWS) \X range(0, BOARD_COLS - WIN_LEN + 1) :
                \A i \in range(0, WIN_LEN) : b[p[1]][p[2] + i] = player_mark}
        V == {p \in range(0, BOARD_COLS) \X range(0, BOARD_ROWS - WIN_LEN + 1) :
                \A i \in range(0, WIN_LEN) : b[p[2] + i][p[1]] = player_mark}
        D == {p \in range(0, BOARD_ROWS - WIN_LEN + 1) \X range(0, BOARD_COLS - WIN_LEN + 1) :
                \A i \in range(0, WIN_LEN) : b[p[1] + i][p[2] + i] = player_mark}
        A == {p \in range(0, BOARD_ROWS - WIN_LEN + 1) \X range(WIN_LEN - 1, BOARD_COLS) :
                \A i \in range(0, WIN_LEN) : b[p[1] + i][p[2] - i] = player_mark}
    IN  IF V # {} THEN [i \in 1 .. WIN_LEN |-> <<first_pair(V)[2] + i - 1, first_pair(V)[1]>>]
        ELSE IF H # {} THEN [i \in 1 .. WIN_LEN |-> <<first_pair(H)[1], first_pair(H)[2] + i - 1>>]
        ELSE IF D # {} THEN [i \in 1 .. WIN_LEN |-> <<first_pair(D)[1] + i - 1, first_pair(D)[2] + i - 1>>]
        ELSE IF A # {} THEN [i \in 1 .. WIN_LEN |-> <<first_pair(A)[1] + i - 1, first_pair(A)[2] - (i - 1)>>]
        ELSE <<>>

get_winning_line(b, player_mark) ==
    LET H == {p \in range(0, BOARD_ROWS) \X range(0, BOARD_COLS - WIN_LEN + 1) :
                \A i \in range(0, WIN_LEN) : b[p[1]][p[2] + i] = player_mark}
        V == {p \in range(0, BOARD_COLS) \X range(0, BOARD_ROWS - WIN_LEN + 1) :
                \A i \in range(0, WIN_LEN) : b[p[2] + i][p[1]] = player_mark}
        D == {p \in range(0, BOARD_ROWS - WIN_LEN + 1) \X range(0, BOARD_COLS - WIN_LEN + 1) :
                \A i \in range(0, WIN_LEN) : b[p[1] + i][p[2] + i] = player_mark}
        A == {p \in range(0, BOARD_ROWS - WIN_LEN + 1) \X range(WIN_LEN - 1, BOARD_COLS) :
                \A i \in range(0, WIN_LEN) : b[p[1] + i][p[2] - i] = player_mark}
    IN  IF H # {} THEN [i \in 1 .. WIN_LEN |-> <<first_pair(H)[1], first_pair(H)[2] + i - 1>>]
        ELSE IF V # {} THEN [i \in 1 .. WIN_LEN |-> <<first_pair(V)[2] + i - 1, first_pair(V)[1]>>]
        ELSE IF D # {} THEN [i \in 1 .. WIN_LEN |-> <<first_pair(D)[1] + i - 1, first_pair(D)[2] + i - 1>>]
        ELSE IF A # {} THEN [i \in 1 .. WIN_LEN |-> <<first_pair(A)[1] + i - 1, first_pair(A)[2] - (i - 1)>>]
        ELSE <<>>       \* Python None: no winning line

\* a check_win that never sees a line
check_win_never(b, player_mark) == FALSE

check_win(b, player_mark) == get_winning_line(b, player_mark) # <<>>

(***************************************************************************)
(* Evaluation                                                              *)
(***************************************************************************)

evaluate(b) ==
    IF check_win(b, "O") THEN 1
    ELSE IF check_win(b, "X") THEN -1
    ELSE 0

\* eval_line without the "two moves from winning" case of X
eval_line_no_x_two(cells) ==
    LET o_count == count(cells, "O")
        x_count == count(cells, "X")
        empty == count(cells, None)
    IN  IF o_count > 0 /\ x_count = 0
        THEN IF o_count = WIN_LEN - 1 /\ empty = 1 THEN 50
             ELSE IF o_count = WIN_LEN - 2 /\ empty = 2 THEN 20
             ELSE 5 * o_count
        ELSE IF x_count > 0 /\ o_count = 0
        THEN IF x_count = WIN_LEN - 1 /\ empty = 1 THEN -50
             ELSE -(5 * x_count)
        ELSE 0

\* value of one line, in hundredths
eval_line(cells) ==
    LET o_count == count(cells, "O")
        x_count == count(cells, "X")
        empty == count(cells, None)
    IN  IF o_count > 0 /\ x_count = 0
        THEN IF o_count = WIN_LEN - 1 /\ empty = 1 THEN 50
             ELSE IF o_count = WIN_LEN - 2 /\ empty = 2 THEN 20
             ELSE 5 * o_count
        ELSE IF x_count > 0 /\ o_count = 0
        THEN IF x_count = WIN_LEN - 1 /\ empty = 1 THEN -50
             ELSE IF x_count = WIN_LEN - 2 /\ empty = 2 THEN -20
             ELSE -(5 * x_count)
        ELSE 0

\* heuristic_eval without its loop over the diagonals from top-right to bottom-left
heuristic_eval_no_anti(b) ==
    LET nw == BOARD_COLS - WIN_LEN + 1
        rows == [k \in 1 .. (BOARD_ROWS * nw) |->
                    eval_line([i \in 1 .. WIN_LEN |->
                        b[(k - 1) \div nw][((k - 1) % nw) + i - 1]])]
        cols == [k \in 1 .. (BOARD_COLS * nw) |->
                    eval_line([i \in 1 .. WIN_LEN |->
                        b[((k - 1) % nw) + i - 1][(k - 1) \div nw]])]
        diag == [k \in 1 .. (nw * nw) |->
                    eval_line([i \in 1 .. WIN_LEN |->
                        b[((k - 1) \div nw) + i - 1][((k - 1) % nw) + i - 1]])]
    IN  SumSeq(rows) + SumSeq(cols) + SumSeq(diag)

heuristic_eval(b) ==
    LET nw == BOARD_COLS - WIN_LEN + 1
        rows == [k \in 1 .. (BOARD_ROWS * nw) |->
                    eval_line([i \in 1 .. WIN_LEN |->
                        b[(k - 1) \div nw][((k - 1) % nw) + i - 1]])]
        cols == [k \in 1 .. (BOARD_COLS * nw) |->
                    eval_line([i \in 1 .. WIN_LEN |->
                        b[((k - 1) % nw) + i - 1][(k - 1) \div nw]])]
        diag == [k \in 1 .. (nw * nw) |->
                    eval_line([i \in 1 .. WIN_LEN |->
                        b[((k - 1) \div nw) + i - 1][((k - 1) % nw) + i - 1]])]
        anti == [k \in 1 .. (nw * nw) |->
                    eval_line([i \in 1 .. WIN_LEN |->
                        b[((k - 1) \div nw) + i - 1][(WIN_LEN - 1 + ((k - 1) % nw)) - (i - 1)]])]
    IN  SumSeq(rows) + SumSeq(cols) + SumSeq(diag) + SumSeq(anti)

(***************************************************************************)
(* Minimax with alpha-beta pruning.  The result is the returned score and *)
(* the board as the call leaves it.                                        *)
(***************************************************************************)

\* a depth limit of 3 instead of 10 when four cells or fewer are empty
depth_limit_short_endgame(b) ==
    LET empty_count == Len(empty_cells(b))
    IN  IF BOARD_ROWS >= 4
        THEN IF empty_count > 12 THEN 4
             ELSE IF empty_count > 8 THEN 5
             ELSE IF empty_count > 4 THEN 6
             ELSE 3
        ELSE 15

\* the depth limit chosen when max_depth is None (<<>>; a given limit d is <<d>>)
depth_limit(b) ==
    LET empty_count == Len(empty_cells(b))
    IN  IF BOARD_ROWS >= 4
        THEN IF empty_count > 12 THEN 4
             ELSE IF empty_count > 8 THEN 5
             ELSE IF empty_count > 4 THEN 6
             ELSE 10
        ELSE 15

\* the score of a decided position without the factor that depends on the depth
terminal_score_flat(score, depth) == score * 100

\* the score of a decided position with the constant 2 in the place of 10
terminal_score_from_2(score, depth) ==
    IF score > 0 THEN score * (2 - depth) * 100 ELSE score * (depth - 2) * 100

\* the score of a position that evaluate() decides
terminal_score(score, depth) ==
    IF score > 0 THEN score * (10 - depth) * 100 ELSE score * (depth - 10) * 100

\* the loop body without its "board[r][c] = None"
undo_probe_skipped(b, r, c) == b

\* what follows the recursive call in the loop body: the cell is cleared
undo_probe(b, r, c) == [b EXCEPT ![r][c] = None]

RECURSIVE minimax(_, _, _, _, _, _)
RECURSIVE maximize_row(_, _, _, _, _)
RECURSIVE maximize(_, _, _, _)
RECURSIVE minimize_row(_, _, _, _, _)
RECURSIVE minimize(_, _, _, _)

\* The loops keep their locals in a record s: best, alpha, beta and the board.  Three more
\* fields observe the recursion and are read by no statement of the program: cells, the
\* number of occupied cells on the board of the call at its entry; levels, the number of
\* nested calls below the call; steps, for every call made in the recursion, the number of
\* occupied cells on its board minus that of its caller's.

\* the inner loop (over c) of the maximizing branch, in row r from column c on
maximize_row(s, r, c, depth, max_depth) ==
    IF c >= BOARD_COLS THEN s
    ELSE IF s.board[r][c] = None
    THEN LET res == minimax([s.board EXCEPT ![r][c] = "O"], depth + 1, FALSE,
                            s.alpha, s.beta, max_depth)
             best == max(s.best, res.score)
             s1 == [best |-> best, alpha |-> max(s.alpha, best), beta |-> s.beta,
                    board |-> undo_probe(res.board, r, c),
                    cells |-> s.cells,
                    levels |-> max(s.levels, res.levels + 1),
                    steps |-> s.steps \cup res.steps \cup {res.cells - s.cells},
                    limits |-> s.limits \cup res.limits,
                    heur |-> s.heur \/ res.heur,
                    deepest |-> max(s.deepest, res.deepest),
                    zero |-> s.zero \/ res.zero,
                    pruned |-> s.pruned \/ res.pruned \/ res.cut]
         IN  IF s1.beta <= s1.alpha THEN s1
             ELSE maximize_row(s1, r, c + 1, depth, max_depth)
    ELSE maximize_row(s, r, c + 1, depth, max_depth)

\* the outer loop (over r) of the maximizing branch, from row r on
maximize(s, r, depth, max_depth) ==
    IF r >= BOARD_ROWS THEN s
    ELSE LET s1 == maximize_row(s, r, 0, depth, max_depth)
         IN  IF s1.beta <= s1.alpha THEN s1
             ELSE maximize(s1, r + 1, depth, max_depth)

\* the inner loop (over c) of the minimizing branch, in row r from column c on
minimize_row(s, r, c, depth, max_depth) ==
    IF c >= BOARD_COLS THEN s
    ELSE IF s.board[r][c] = None
    THEN LET res == minimax([s.board EXCEPT ![r][c] = "X"], depth + 1, TRUE,
                            s.alpha, s.beta, max_depth)
             best == min(s.best, res.score)
             s1 == [best |-> best, alpha |-> s.alpha, beta |-> min(s.beta, best),
                    board |-> undo_probe(res.board, r, c),
                    cells |-> s.cells,
                    levels |-> max(s.levels, res.levels + 1),
                    steps |-> s.steps \cup res.steps \cup {res.cells - s.cells},
                    limits |-> s.limits \cup res.limits,
                    heur |-> s.heur \/ res.heur,
                    deepest |-> max(s.deepest, res.deepest),
                    zero |-> s.zero \/ res.zero,
                    pruned |-> s.pruned \/ res.pruned \/ res.cut]
         IN  IF s1.beta <= s1.alpha THEN s1
             ELSE minimize_row(s1, r, c + 1, depth, max_depth)
    ELSE minimize_row(s, r, c + 1, depth, max_depth)

\* the outer loop (over r) of the minimizing branch, from row r on
minimize(s, r, depth, max_depth) ==
    IF r >= BOARD_ROWS THEN s
    ELSE LET s1 == minimize_row(s, r, 0, depth, max_depth)
         IN  IF s1.beta <= s1.alpha THEN s1
             ELSE minimize(s1, r + 1, depth, max_depth)

\* the result of a call that returns before its loops
early_return(score, b) ==
    [score |-> score, board |-> b, cut |-> FALSE,
     cells |-> occupied(b), levels |-> 0, steps |-> {}, limits |-> {},
     heur |-> FALSE, deepest |-> -1, zero |-> FALSE, pruned |-> FALSE]

\* the locals at the start of the loops with alpha and beta exchanged
locals_window_crossed(best, alpha, beta, b) ==
    [best |-> best, alpha |-> beta, beta |-> alpha, board |-> b,
     cells |-> occupied(b), levels |-> 0, steps |-> {}, limits |-> {},
     heur |-> FALSE, deepest |-> -1, zero |-> FALSE, pruned |-> FALSE]

\* the locals at the start of the loops
locals(best, alpha, beta, b) ==
    [best |-> best, alpha |-> alpha, beta |-> beta, board |-> b,
     cells |-> occupied(b), levels |-> 0, steps |-> {}, limits |-> {},
     heur |-> FALSE, deepest |-> -1, zero |-> FALSE, pruned |-> FALSE]

\* a recursive call that leaves max_depth out, so that the callee counts again
max_depth_omitted(limit) == <<>>

\* the max_depth argument of the recursive calls
max_depth_passed(limit) == <<limit>>

\* max_depth is <<>> (None) or <<d>>; the result is the score returned, the board left,
\* cut: whether the call left its loops by "if beta <= alpha: break", and what the
\* recursion was observed to do (limits: the values of max_depth in force in this call
\* and in the calls below it; heur: heuristic_eval was called; deepest: the greatest
\* depth at which evaluate() found a winner, -1 if it never did; zero: a position with
\* a winner was scored 0; pruned: a call below this one left its loops by a break)
minimax(b, depth, is_maximizing, alpha, beta, max_depth) ==
    LET limit == IF max_depth = <<>> THEN depth_limit(b) ELSE max_depth[1]
        score == evaluate(b)
        s == IF is_maximizing
             THEN maximize(locals(-99900, alpha, beta, b), 0, depth, max_depth_passed(limit))
             ELSE minimize(locals(99900, alpha, beta, b), 0, depth, max_depth_passed(limit))
    IN  IF score # 0
        THEN [early_return(terminal_score(score, depth), b)
                EXCEPT !.limits = {limit}, !.deepest = depth,
                       !.zero = (terminal_score(score, depth) = 0)]
        ELSE IF is_board_full(b) THEN [early_return(0, b) EXCEPT !.limits = {limit}]
        ELSE IF depth >= limit
        THEN [early_return(heuristic_eval(b), b) EXCEPT !.limits = {limit}, !.heur = TRUE]
        ELSE [score |-> s.best, board |-> s.board, cut |-> s.beta <= s.alpha,
              cells |-> s.cells, levels |-> s.levels, steps |-> s.steps,
              limits |-> s.limits \cup {limit}, heur |-> s.heur,
              deepest |-> s.deepest, zero |-> s.zero, pruned |-> s.pruned]

(***************************************************************************)
(* AI moves.  st is the record of the globals they write.                 *)
(***************************************************************************)

ai_move_easy(st, pick) ==
    LET empty == empty_cells(st.board)
    IN  IF empty # <<>>
        THEN mark_square(st, empty[pick][1], empty[pick][2], "O")
        ELSE st

\* the first double loop of ai_move_medium, from cell (r, c) on
RECURSIVE medium_win_probe(_, _, _)
medium_win_probe(st, r, c) ==
    IF r >= BOARD_ROWS THEN [returned |-> FALSE, st |-> st]
    ELSE IF c >= BOARD_COLS THEN medium_win_probe(st, r + 1, 0)
    ELSE IF st.board[r][c] = None
    THEN LET st1 == [st EXCEPT !.board[r][c] = "O"]
         IN  IF check_win(st1.board, "O")
             THEN [returned |-> TRUE, st |-> mark_square(st1, r, c, "O")]
             ELSE medium_win_probe([st1 EXCEPT !.board[r][c] = None], r, c + 1)
    ELSE medium_win_probe(st, r, c + 1)

\* ai_move_medium without its second double loop
medium_block_probe_skipped(st, r, c) == [returned |-> FALSE, st |-> st]

\* the second double loop of ai_move_medium, from cell (r, c) on
RECURSIVE medium_block_probe(_, _, _)
medium_block_probe(st, r, c) ==
    IF r >= BOARD_ROWS THEN [returned |-> FALSE, st |-> st]
    ELSE IF c >= BOARD_COLS THEN medium_block_probe(st, r + 1, 0)
    ELSE IF st.board[r][c] = None
    THEN LET st1 == [st EXCEPT !.board[r][c] = "X"]
         IN  IF check_win(st1.board, "X")
             THEN [returned |-> TRUE,
                   st |-> mark_square([st1 EXCEPT !.board[r][c] = None], r, c, "O")]
             ELSE medium_block_probe([st1 EXCEPT !.board[r][c] = None], r, c + 1)
    ELSE medium_block_probe(st, r, c + 1)

\* ai_move_medium's smart branch after the block probe k
medium_after_block(k, pick) ==
    IF k.returned THEN k.st ELSE ai_move_easy(k.st, pick)

\* ai_move_medium's smart branch after the win probe w
medium_after_win(w, pick) ==
    IF w.returned THEN w.st
    ELSE medium_after_block(medium_block_probe(w.st, 0, 0), pick)

\* smart: random.random() < 0.6;  pick: the value of random.choice in ai_move_easy
ai_move_medium(st, smart, pick) ==
    IF smart
    THEN medium_after_win(medium_win_probe(st, 0, 0), pick)
    ELSE ai_move_easy(st, pick)

\* the win probe of ai_move_hard without its "board[r][c] = None"
hard_win_keep(st, r, c) == st

\* what the win probe of ai_move_hard does with a cell that does not win: it is cleared
hard_win_restore(st, r, c) == [st EXCEPT !.board[r][c] = None]

\* ai_move_hard without its first double loop
hard_win_probe_skipped(st, r, c) == [returned |-> FALSE, st |-> st]

\* the first double loop of ai_move_hard, from cell (r, c) on
RECURSIVE hard_win_probe(_, _, _)
hard_win_probe(st, r, c) ==
    IF r >= BOARD_ROWS THEN [returned |-> FALSE, st |-> st]
    ELSE IF c >= BOARD_COLS THEN hard_win_probe(st, r + 1, 0)
    ELSE IF st.board[r][c] = None
    THEN LET st1 == [st EXCEPT !.board[r][c] = "O"]
         IN  IF check_win(st1.board, "O")
             THEN [returned |-> TRUE, st |-> mark_square(st1, r, c, "O")]
             ELSE hard_win_probe(hard_win_restore(st1, r, c), r, c + 1)
    ELSE hard_win_probe(st, r, c + 1)

\* ai_move_hard without its second double loop
hard_block_probe_skipped(st, r, c) == [returned |-> FALSE, st |-> st]

\* the second double loop of ai_move_hard, from cell (r, c) on
RECURSIVE hard_block_probe(_, _, _)
hard_block_probe(st, r, c) ==
    IF r >= BOARD_ROWS THEN [returned |-> FALSE, st |-> st]
    ELSE IF c >= BOARD_COLS THEN hard_block_probe(st, r + 1, 0)
    ELSE IF st.board[r][c] = None
    THEN LET st1 == [st EXCEPT !.board[r][c] = "X"]
         IN  IF check_win(st1.board, "X")
             THEN [returned |-> TRUE,
                   st |-> mark_square([st1 EXCEPT !.board[r][c] = None], r, c, "O")]
             ELSE hard_block_probe([st1 EXCEPT !.board[r][c] = None], r, c + 1)
    ELSE hard_block_probe(st, r, c + 1)

\* a key that gives every move the same priority
move_priority_same(move) == 2

move_priority(move) ==
    LET center == BOARD_ROWS \div 2
    IN  IF move[1] = center /\ move[2] = center THEN 0
        ELSE IF (move[1] = 0 \/ move[1] = BOARD_ROWS - 1) /\ (move[2] = 0 \/ move[2] = BOARD_COLS - 1)
        THEN 1
        ELSE 2

\* moves.sort(key=move_priority): a stable sort on three key values
sorted_moves(b) ==
    SelectSeq(empty_cells(b), LAMBDA m : move_priority(m) = 0)
        \o SelectSeq(empty_cells(b), LAMBDA m : move_priority(m) = 1)
        \o SelectSeq(empty_cells(b), LAMBDA m : move_priority(m) = 2)

RECURSIVE hard_search(_, _, _)

\* the locals after the loop body for the move (r, c), whose minimax call returned res
hard_search_step(s, r, c, res) ==
    LET better == res.score > s.best_score
        best_score == IF better THEN res.score ELSE s.best_score
    IN  [best_score |-> best_score,
         best_move |-> IF better THEN <<r, c>> ELSE s.best_move,
         alpha |-> max(s.alpha, best_score),
         beta |-> s.beta,
         st |-> [s.st EXCEPT !.board = [res.board EXCEPT ![r][c] = None]]]

\* the loop over the ordered moves, from moves[i] on; s holds the locals
\* best_score, best_move, alpha, beta and the globals st.  (res and s1 are bound by a
\* one-element set, so each is computed once.)
hard_search(s, moves, i) ==
    IF i > Len(moves) THEN s
    ELSE CHOOSE out \in
            { IF s1.beta <= s1.alpha THEN s1 ELSE hard_search(s1, moves, i + 1) :
                s1 \in { hard_search_step(s, moves[i][1], moves[i][2], res) :
                           res \in { minimax([s.st.board EXCEPT ![moves[i][1]][moves[i][2]] = "O"],
                                             0, FALSE, s.alpha, s.beta, <<>>) } } } : TRUE

\* the end of ai_move_hard when best_move is taken to be unset
hard_place_nothing(s) == s.st

\* the end of ai_move_hard: the best move is played
hard_place(s) ==
    IF s.best_move # <<>>
    THEN mark_square(s.st, s.best_move[1], s.best_move[2], "O")
    ELSE s.st

\* ai_move_hard after the block probe k
hard_after_block(k) ==
    IF k.returned THEN k.st
    ELSE hard_place(hard_search([best_score |-> -99900, best_move |-> <<>>,
                                 alpha |-> -99900, beta |-> 99900, st |-> k.st],
                                sorted_moves(k.st.board), 1))

\* ai_move_hard after the win probe w
hard_after_win(w) ==
    IF w.returned THEN w.st
    ELSE hard_after_block(hard_block_probe(w.st, 0, 0))

ai_move_hard(st) == hard_after_win(hard_win_probe(st, 0, 0))

(***************************************************************************)
(* Undo                                                                    *)
(***************************************************************************)

\* the loop of undo_last_move without its "player = mark"
RECURSIVE undo_moves_keep_player(_, _)
undo_moves_keep_player(st, n) ==
    IF n = 0 THEN st
    ELSE IF st.move_history # <<>>
    THEN LET last == st.move_history[Len(st.move_history)]
         IN  undo_moves_keep_player(
                [board |-> [st.board EXCEPT ![last[1]][last[2]] = None],
                 move_history |-> SubSeq(st.move_history, 1, Len(st.move_history) - 1),
                 move_count |-> st.move_count - 1,
                 player |-> st.player], n - 1)
    ELSE undo_moves_keep_player(st, n - 1)

\* the loop of undo_last_move without its "board[row][col] = None"
RECURSIVE undo_moves_keep_mark(_, _)
undo_moves_keep_mark(st, n) ==
    IF n = 0 THEN st
    ELSE IF st.move_history # <<>>
    THEN LET last == st.move_history[Len(st.move_history)]
         IN  undo_moves_keep_mark(
                [board |-> st.board,
                 move_history |-> SubSeq(st.move_history, 1, Len(st.move_history) - 1),
                 move_count |-> st.move_count - 1,
                 player |-> last[3]], n - 1)
    ELSE undo_moves_keep_mark(st, n - 1)

\* the loop of undo_last_move; st also carries player
RECURSIVE undo_moves(_, _)
undo_moves(st, n) ==
    IF n = 0 THEN st
    ELSE IF st.move_history # <<>>
    THEN LET last == st.move_history[Len(st.move_history)]
         IN  undo_moves([board |-> [st.board EXCEPT ![last[1]][last[2]] = None],
                         move_history |-> SubSeq(st.move_history, 1, Len(st.move_history) - 1),
                         move_count |-> st.move_count - 1,
                         player |-> last[3]], n - 1)
    ELSE undo_moves(st, n - 1)

\* undo_last_move without its AI-mode branch: one move is taken back in every mode
undo_last_move_one(st) ==
    IF st.move_history = <<>> THEN st ELSE undo_moves(st, 1)

undo_last_move(st) ==
    IF st.move_history = <<>> THEN st
    ELSE LET moves_to_undo == IF game_mode \in AI_MODES
                              THEN min(2, Len(st.move_history))
                              ELSE 1
         IN  undo_moves(st, moves_to_undo)

(***************************************************************************)
(* The match loop: main, reset_board (the menu), play_one_game and        *)
(* end_screen_loop.  One action per input event handled.                  *)
(***************************************************************************)

MaxMatches == 1     \* matches that may be finished (caps the tallies)
MaxChoice == 2      \* a human places on one of the first MaxChoice empty cells

\* the globals after import and load_settings; the tallies are those of a settings file
\* that holds no finished match (or after "Reset Scores")
Init ==
    /\ BOARD_ROWS = DEFAULT_BOARD_SIZE
    /\ board = new_board(DEFAULT_BOARD_SIZE)
    /\ player = "X"
    /\ move_history = <<>>
    /\ move_count = 0
    /\ game_mode = None
    /\ x_wins = 0 /\ o_wins = 0 /\ draws = 0
    /\ screen = "menu"
    /\ event = [kind |-> "init"]

\* the reset of a match without its "player = 'X'"
fresh_match_keeps_player ==
    /\ board' = new_board(BOARD_ROWS)
    /\ player' = player
    /\ move_history' = <<>>
    /\ move_count' = 0

\* the reset of a match: X to move, no history, every cell empty
fresh_match ==
    /\ board' = new_board(BOARD_ROWS)
    /\ player' = "X"
    /\ move_history' = <<>>
    /\ move_count' = 0

\* a win that is counted as a draw
handle_win_counts_draw(player_mark) ==
    /\ draws' = draws + 1
    /\ UNCHANGED <<x_wins, o_wins>>

handle_win(player_mark) ==
    /\ x_wins' = IF player_mark = "X" THEN x_wins + 1 ELSE x_wins
    /\ o_wins' = IF player_mark = "X" THEN o_wins ELSE o_wins + 1
    /\ draws' = draws

\* a draw that is not counted
handle_draw_not_counted == UNCHANGED <<x_wins, o_wins, draws>>

handle_draw ==
    /\ draws' = draws + 1
    /\ UNCHANGED <<x_wins, o_wins>>

\* reset_board, the menu: a mode is chosen; main() then calls play_one_game
menu_choose(mode) ==
    /\ screen = "menu"
    /\ game_mode' = mode
    /\ screen' = "starting"
    /\ event' = [kind |-> "menu_choose"]
    /\ UNCHANGED <<BOARD_ROWS, board, player, move_history, move_count, x_wins, o_wins, draws>>

\* the head of play_one_game, up to its event loop
play_one_game_start ==
    /\ screen = "starting"
    /\ fresh_match
    /\ screen' = "play"
    /\ event' = [kind |-> "start"]
    /\ UNCHANGED <<BOARD_ROWS, game_mode, x_wins, o_wins, draws>>

\* what a placement by the human leaves, and the end of the match if it decides it
pvp_click(cell_y, cell_x) ==
    IF available_square(board, cell_y, cell_x)
    THEN LET st == mark_square(globals, cell_y, cell_x, player)
         IN  /\ board' = st.board
             /\ move_history' = st.move_history
             /\ move_count' = st.move_count
             /\ IF check_win(st.board, player)
                THEN handle_win(player) /\ screen' = "end" /\ player' = player
                ELSE IF is_board_full(st.board)
                THEN handle_draw /\ screen' = "end" /\ player' = player
                ELSE /\ player' = (IF player = "X" THEN "O" ELSE "X")
                     /\ UNCHANGED <<x_wins, o_wins, draws, screen>>
    ELSE UNCHANGED <<board, move_history, move_count, player, x_wins, o_wins, draws, screen>>

ai_reply(st, smart, pick) ==
    IF game_mode = "AI_EASY" THEN ai_move_easy(st, pick)
    ELSE IF game_mode = "AI_MEDIUM" THEN ai_move_medium(st, smart, pick)
    ELSE ai_move_hard(st)

ai_click(cell_y, cell_x, smart, pick) ==
    IF available_square(board, cell_y, cell_x)
    THEN LET st == mark_square(globals, cell_y, cell_x, player)
         IN  IF check_win(st.board, "X")
             THEN /\ board' = st.board
                  /\ move_history' = st.move_history
                  /\ move_count' = st.move_count
                  /\ handle_win("X") /\ screen' = "end" /\ player' = player
             ELSE IF is_board_full(st.board)
             THEN /\ board' = st.board
                  /\ move_history' = st.move_history
                  /\ move_count' = st.move_count
                  /\ handle_draw /\ screen' = "end" /\ player' = player
             ELSE \E ai \in {ai_reply(st, smart, pick)} :
                      /\ board' = ai.board
                      /\ move_history' = ai.move_history
                      /\ move_count' = ai.move_count
                      /\ player' = player
                      /\ IF check_win(ai.board, "O")
                         THEN handle_win("O") /\ screen' = "end"
                         ELSE IF is_board_full(ai.board)
                         THEN handle_draw /\ screen' = "end"
                         ELSE UNCHANGED <<x_wins, o_wins, draws, screen>>
    ELSE UNCHANGED <<board, move_history, move_count, player, x_wins, o_wins, draws, screen>>

\* the values the random source can give in the reply to a placement on (cell_y, cell_x)
random_draws(cell_y, cell_x) ==
    LET left == Len(empty_cells(board)) - 1
    IN  IF game_mode \in {"AI_EASY", "AI_MEDIUM"} /\ available_square(board, cell_y, cell_x) /\ left > 0
        THEN (IF game_mode = "AI_MEDIUM" THEN BOOLEAN ELSE {FALSE}) \X (1 .. left)
        ELSE {<<FALSE, 1>>}

\* MOUSEBUTTONDOWN on the cell (cell_y, cell_x) of the board
click_cell(cell_y, cell_x) ==
    /\ screen = "play"
    /\ x_wins + o_wins + draws < MaxMatches
    /\ event' = [kind |-> "click", on_mark |-> board[cell_y][cell_x] # None]
    /\ IF game_mode = "PVP"
       THEN pvp_click(cell_y, cell_x)
       ELSE \E rnd \in random_draws(cell_y, cell_x) : ai_click(cell_y, cell_x, rnd[1], rnd[2])
    /\ UNCHANGED <<BOARD_ROWS, game_mode>>

\* MOUSEBUTTONDOWN outside the board and outside the buttons
click_outside ==
    /\ screen = "play"
    /\ event' = [kind |-> "click_outside"]
    /\ UNCHANGED <<BOARD_ROWS, board, player, move_history, move_count, game_mode,
                   x_wins, o_wins, draws, screen>>

\* MOUSEBUTTONDOWN on the Undo button, or Ctrl+Z
undo_input(key) ==
    /\ screen = "play"
    /\ event' = [kind |-> key]
    /\ LET st == undo_last_move([board |-> board, move_history |-> move_history,
                                 move_count |-> move_count, player |-> player])
       IN  /\ board' = st.board
           /\ move_history' = st.move_history
           /\ move_count' = st.move_count
           /\ player' = st.player
    /\ UNCHANGED <<BOARD_ROWS, game_mode, x_wins, o_wins, draws, screen>>

undo_button == undo_input("undo")
ctrl_z == undo_input("undo")

\* MOUSEBUTTONDOWN on the New Game button
new_game_button ==
    /\ screen = "play"
    /\ fresh_match
    /\ event' = [kind |-> "new_game"]
    /\ UNCHANGED <<BOARD_ROWS, game_mode, x_wins, o_wins, draws, screen>>

\* MOUSEBUTTONDOWN on Back to Menu
back_to_menu ==
    /\ screen = "play"
    /\ game_mode' = None
    /\ screen' = "menu"
    /\ event' = [kind |-> "back_to_menu"]
    /\ UNCHANGED <<BOARD_ROWS, board, player, move_history, move_count, x_wins, o_wins, draws>>

\* end_screen_loop: Restart returns True and main() calls play_one_game again
end_restart ==
    /\ screen = "end"
    /\ screen' = "starting"
    /\ event' = [kind |-> "restart"]
    /\ UNCHANGED <<BOARD_ROWS, board, player, move_history, move_count, game_mode,
                   x_wins, o_wins, draws>>

\* end_screen_loop: Menu
end_menu ==
    /\ screen = "end"
    /\ game_mode' = None
    /\ screen' = "menu"
    /\ event' = [kind |-> "end_menu"]
    /\ UNCHANGED <<BOARD_ROWS, board, player, move_history, move_count, x_wins, o_wins, draws>>

\* the cells a human input is drawn from: any occupied cell, and the first MaxChoice empty ones
click_inputs ==
    {p \in range(0, BOARD_ROWS) \X range(0, BOARD_COLS) :
        \/ board[p[1]][p[2]] # None
        \/ \E i \in 1 .. min(MaxChoice, Len(empty_cells(board))) : empty_cells(board)[i] = p}

Next ==
    \/ \E mode \in MODES : menu_choose(mode)
    \/ play_one_game_start
    \/ \E p \in click_inputs : click_cell(p[1], p[2])
    \/ click_outside
    \/ undo_button
    \/ ctrl_z
    \/ new_game_button
    \/ back_to_menu
    \/ end_restart
    \/ end_menu

Spec == Init /\ [][Next]_vars

(***************************************************************************)
(* AI_HARD on the 3x3 board against every human: the human may click any  *)
(* cell.                                                                   *)
(***************************************************************************)

NextHard ==
    \/ menu_choose("AI_HARD")
    \/ play_one_game_start
    \/ \E p \in range(0, BOARD_ROWS) \X range(0, BOARD_COLS) : click_cell(p[1], p[2])

SpecHard == Init /\ [][NextHard]_vars

(***************************************************************************)
(* Calls of single functions.  The initial states are boards the program  *)
(* can hold: X moved first and the marks alternate.  3x3 boards are all   *)
(* of them; 4x4 boards are those whose rows are among RowPatterns4.       *)
(***************************************************************************)

row_of(t) == [c \in range(0, Len(t)) |-> t[c + 1]]

RowPatterns4 ==
    { row_of(t) : t \in {
        <<"X", "X", "X", "X">>, <<"O", "O", "O", "O">>,
        <<"X", "O", "X", "O">>, <<"O", "X", "O", "X">>,
        <<"X", "X", "O", "O">>, <<"O", "O", "X", "X">>,
        <<"X", "X", "X", None>>, <<"O", "O", "O", None>>,
        <<None, "O", "X", "O">>, <<"X", None, "O", "X">>,
        <<"O", "X", None, "X">>, <<None, "O", None, "X">> } }

Boards(n) ==
    IF n = 3 THEN [range(0, 3) -> [range(0, 3) -> {"X", "O", None}]]
    ELSE [range(0, 4) -> RowPatterns4]

marks_on(b, m) ==
    Cardinality({p \in (DOMAIN b) \X (DOMAIN b) : b[p[1]][p[2]] = m})

\* the lines of WIN_LEN cells of an n x n board with WIN_LEN = n
Lines(n) ==
    { {<<r, c>> : c \in range(0, n)} : r \in range(0, n) }
        \cup { {<<r, c>> : r \in range(0, n)} : c \in range(0, n) }
        \cup { {<<i, i>> : i \in range(0, n)}, {<<i, n - 1 - i>> : i \in range(0, n)} }

\* some row, some column, the main diagonal or the anti-diagonal of b holds only m
has_line(b, m) ==
    LET idx == DOMAIN b
        last == Cardinality(idx) - 1
    IN  \/ \E r \in idx : \A c \in idx : b[r][c] = m
        \/ \E c \in idx : \A r \in idx : b[r][c] = m
        \/ \A i \in idx : b[i][i] = m
        \/ \A i \in idx : b[i][last - i] = m

\* boards of alternating play started by X, on which at most one mark has a line
PlayBoards(n) ==
    {b \in Boards(n) :
        /\ marks_on(b, "X") - marks_on(b, "O") \in {0, 1}
        /\ ~(has_line(b, "X") /\ has_line(b, "O"))}

cells_of(b, m) == SelectSeq(all_cells, LAMBDA p : b[p[1]][p[2]] = m)

\* a move history that leaves the board b: X and O in turn, each in row-major order
history_of(b) ==
    [k \in 1 .. (Len(cells_of(b, "X")) + Len(cells_of(b, "O"))) |->
        IF k % 2 = 1
        THEN <<cells_of(b, "X")[(k + 1) \div 2][1], cells_of(b, "X")[(k + 1) \div 2][2], "X">>
        ELSE <<cells_of(b, "O")[k \div 2][1], cells_of(b, "O")[k \div 2][2], "O">>]

\* the program holds one of the boards in a match of one of the modes, and a function is called
InitCall(B3, B4, modes) ==
    /\ BOARD_ROWS \in {3, 4}
    /\ board \in (IF BOARD_ROWS = 3 THEN B3 ELSE B4)
    /\ player = (IF marks_on(board, "X") = marks_on(board, "O") THEN "X" ELSE "O")
    /\ move_history = history_of(board)
    /\ move_count = Len(move_history)
    /\ game_mode \in modes
    /\ x_wins = 0 /\ o_wins = 0 /\ draws = 0
    /\ screen = "call"
    /\ event = [kind |-> "init"]

\* C1: in AI_HARD on the 3x3 board no reachable state has a winning line for X
C1_HardNeverLoses ==
    (game_mode = "AI_HARD" /\ BOARD_ROWS = 3) => ~has_line(board, "X")

(***************************************************************************)
(* check_win called on a board                                             *)
(***************************************************************************)

InitCheckWin == InitCall(PlayBoards(3), PlayBoards(4), {"PVP"})

call_check_win(player_mark) ==
    /\ screen = "call"
    /\ event.kind = "init"
    /\ event' = [kind |-> "check_win", mark |-> player_mark,
                 result |-> check_win(board, player_mark)]
    /\ UNCHANGED <<BOARD_ROWS, board, player, move_history, move_count, game_mode,
                   x_wins, o_wins, draws, screen>>

NextCheckWin == \E m \in Marks : call_check_win(m)

SpecCheckWin == InitCheckWin /\ [][NextCheckWin]_vars

\* C4: on 3x3 and 4x4 boards check_win(m) is true exactly when some row, some column,
\* the main diagonal or the anti-diagonal consists entirely of m
C4_CheckWinIffFullLine ==
    event.kind = "check_win" => (event.result <=> has_line(board, event.mark))

\* check_win answered True on a 4x4 board whose only full line is the anti-diagonal
C4_Witness ==
    /\ event.kind = "check_win"
    /\ event.result
    /\ BOARD_ROWS = 4
    /\ \A L \in Lines(4) :
          (\A p \in L : board[p[1]][p[2]] = event.mark) <=> (L = {<<i, 3 - i>> : i \in range(0, 4)})

(***************************************************************************)
(* mark_square called with any coordinates, also outside the board and on *)
(* occupied cells                                                          *)
(***************************************************************************)

MaxOutside == 1     \* coordinates are drawn from -MaxOutside .. BOARD_ROWS - 1 + MaxOutside

InitMark == InitCall(PlayBoards(3), PlayBoards(4), {"PVP"})

call_mark_square(row, col, mark) ==
    /\ screen = "call"
    /\ event.kind = "init"
    /\ LET st == mark_square(globals, row, col, mark)
       IN  /\ board' = st.board
           /\ move_history' = st.move_history
           /\ move_count' = st.move_count
    /\ event' = [kind |-> "mark_square", row |-> row, col |-> col, mark |-> mark,
                 raised |-> mark_square_raises(row, col), before |-> globals]
    /\ UNCHANGED <<BOARD_ROWS, player, game_mode, x_wins, o_wins, draws, screen>>

NextMark ==
    \E row, col \in (-MaxOutside) .. (BOARD_ROWS - 1 + MaxOutside) :
        \E mark \in Marks : call_mark_square(row, col, mark)

SpecMark == InitMark /\ [][NextMark]_vars

on_board(row, col) == row \in range(0, BOARD_ROWS) /\ col \in range(0, BOARD_COLS)

\* C5: mark_square called with out-of-range coordinates or on an occupied cell fails
\* with an error the caller observes, and leaves the board, the move history and the
\* move count as they were
C5_InvalidMoveRejected ==
    (/\ event.kind = "mark_square"
     /\ (on_board(event.row, event.col) => event.before.board[event.row][event.col] # None))
    => /\ event.raised
       /\ board = event.before.board
       /\ move_history = event.before.move_history
       /\ move_count = event.before.move_count

(***************************************************************************)
(* minimax called on a board, with any depth, side, window and depth limit *)
(***************************************************************************)

MaxEmptyMinimax == 3    \* minimax is called on boards with at most this many empty cells

\* the depths a call is made at
Depths == {0, 1}

\* max_depth: None (<<>>), or a limit that the search reaches
DepthLimits == {<<>>, <<1>>, <<2>>}

\* alpha/beta windows: the full one of ai_move_hard and narrower ones that a search passes down
Windows == {<<-99900, 99900>>, <<-100, 100>>, <<0, 50>>}

InitMinimax ==
    InitCall({b \in PlayBoards(3) : marks_on(b, None) <= MaxEmptyMinimax},
             {b \in PlayBoards(4) : marks_on(b, None) <= MaxEmptyMinimax},
             {"AI_HARD"})

call_minimax(depth, is_maximizing, alpha, beta, max_depth) ==
    /\ screen = "call"
    /\ event.kind = "init"
    /\ \E res \in {minimax(board, depth, is_maximizing, alpha, beta, max_depth)} :
          /\ board' = res.board
          /\ event' = [kind |-> "minimax", before |-> board, score |-> res.score,
                       cut |-> res.cut, levels |-> res.levels, steps |-> res.steps]
    /\ UNCHANGED <<BOARD_ROWS, player, move_history, move_count, game_mode,
                   x_wins, o_wins, draws, screen>>

NextMinimax ==
    \E depth \in Depths, is_maximizing \in BOOLEAN, w \in Windows, max_depth \in DepthLimits :
        call_minimax(depth, is_maximizing, w[1], w[2], max_depth)

SpecMinimax == InitMinimax /\ [][NextMinimax]_vars

\* C7: every call of minimax returns with every cell of the board as it was at entry,
\* on every exit path, also after a cutoff has broken out of the loops
C7_MinimaxRestoresBoard ==
    event.kind = "minimax" => board = event.before

\* a call on a 4x4 board with three or more empty cells that left its loops by a cutoff
C7_Witness ==
    /\ event.kind = "minimax"
    /\ event.cut
    /\ BOARD_ROWS = 4
    /\ marks_on(event.before, None) >= 3
    /\ board = event.before

\* C15: every recursive call of minimax runs on a board with exactly one more occupied
\* cell than its caller's, the calls are nested no deeper than the number of empty cells
\* at the first call, and a call on a full board returns its evaluation without a
\* recursive call
C15_MinimaxRecursionBounded ==
    event.kind = "minimax" =>
        /\ event.steps \subseteq {1}
        /\ event.levels <= marks_on(event.before, None)
        /\ marks_on(event.before, None) = 0 =>
              /\ event.levels = 0
              /\ event.steps = {}
              /\ (event.score = 0) <=> (~has_line(event.before, "X") /\ ~has_line(event.before, "O"))

\* a call on a 4x4 board with three empty cells whose recursion went down to a full board
C15_Witness ==
    /\ event.kind = "minimax"
    /\ BOARD_ROWS = 4
    /\ marks_on(event.before, None) = 3
    /\ event.levels = 3
    /\ event.steps = {1}

(***************************************************************************)
(* The AI's turn on a board where O is to move: ai_move_easy,             *)
(* ai_move_medium or ai_move_hard, by the game mode                        *)
(***************************************************************************)

MaxEmptyAI == 6     \* the AI moves on boards with at most this many empty cells

\* O is to move, nobody has won, a cell is empty
AIBoards(n) ==
    {b \in PlayBoards(n) :
        /\ marks_on(b, "X") = marks_on(b, "O") + 1
        /\ ~has_line(b, "X") /\ ~has_line(b, "O")
        /\ marks_on(b, None) \in 1 .. MaxEmptyAI}

InitAI == InitCall(AIBoards(3), AIBoards(4), AI_MODES)

\* the values the random source can give in this turn: <<random.random() < 0.6, choice>>
ai_draws ==
    IF game_mode = "AI_HARD" THEN {<<FALSE, 1>>}
    ELSE (IF game_mode = "AI_MEDIUM" THEN BOOLEAN ELSE {FALSE})
            \X (1 .. Len(empty_cells(board)))

\* the "AI turn" of play_one_game
ai_turn(smart, pick) ==
    /\ screen = "call"
    /\ event.kind = "init"
    /\ \E ai \in {ai_reply(globals, smart, pick)} :
          /\ board' = ai.board
          /\ move_history' = ai.move_history
          /\ move_count' = ai.move_count
    /\ event' = [kind |-> "ai_move", before |-> globals, smart |-> smart]
    /\ UNCHANGED <<BOARD_ROWS, player, game_mode, x_wins, o_wins, draws, screen>>

NextAI == \E rnd \in ai_draws : ai_turn(rnd[1], rnd[2])

SpecAI == InitAI /\ [][NextAI]_vars

\* the empty cells of b that complete a line of m
winning_cells(b, m) ==
    {p \in (DOMAIN b) \X (DOMAIN b) :
        /\ b[p[1]][p[2]] = None
        /\ has_line([b EXCEPT ![p[1]][p[2]] = m], m)}

\* the first cell of S in row-major order
first_cell(S) ==
    CHOOSE p \in S : \A q \in S : p[1] < q[1] \/ (p[1] = q[1] /\ p[2] <= q[2])

\* the AI's turn placed O on the cell p of the board it found, and nothing else
placed_on(p) ==
    /\ event.before.board[p[1]][p[2]] = None
    /\ board = [event.before.board EXCEPT ![p[1]][p[2]] = "O"]
    /\ move_history = Append(event.before.move_history, <<p[1], p[2], "O">>)
    /\ move_count = event.before.move_count + 1

\* C2: when some empty cell wins at once for O, ai_move_hard places O on the first such
\* cell in row-major order and O has a winning line, also when X threatens to win too
C2_HardTakesImmediateWin ==
    (/\ event.kind = "ai_move"
     /\ game_mode = "AI_HARD"
     /\ winning_cells(event.before.board, "O") # {})
    => /\ placed_on(first_cell(winning_cells(event.before.board, "O")))
       /\ has_line(board, "O")

\* ai_move_hard moved on a 4x4 board where O had two winning cells and X had one too
C2_Witness ==
    /\ event.kind = "ai_move"
    /\ game_mode = "AI_HARD"
    /\ BOARD_ROWS = 4
    /\ Cardinality(winning_cells(event.before.board, "O")) >= 2
    /\ winning_cells(event.before.board, "X") # {}
    /\ has_line(board, "O")

\* C3: when no empty cell wins at once for O but some empty cell would win for X,
\* ai_move_hard places O on the first such cell in row-major order
C3_HardBlocksImmediateLoss ==
    (/\ event.kind = "ai_move"
     /\ game_mode = "AI_HARD"
     /\ winning_cells(event.before.board, "O") = {}
     /\ winning_cells(event.before.board, "X") # {})
    => placed_on(first_cell(winning_cells(event.before.board, "X")))

\* ai_move_hard moved on a 4x4 board where O could not win at once and X had two
\* winning cells: the first is taken, the other is left
C3_Witness ==
    /\ event.kind = "ai_move"
    /\ game_mode = "AI_HARD"
    /\ BOARD_ROWS = 4
    /\ winning_cells(event.before.board, "O") = {}
    /\ Cardinality(winning_cells(event.before.board, "X")) >= 2
    /\ Cardinality(winning_cells(board, "X")) >= 1

\* C8: each difficulty, called on a board with an empty cell, changes exactly one cell
\* from empty to O, appends exactly that move to the history and adds one to the move
\* count; every other cell is as before, also after the probes and the search
C8_AIMovePlacesOneMark ==
    event.kind = "ai_move" =>
        \E p \in (DOMAIN board) \X (DOMAIN board) : placed_on(p)

\* ai_move_hard moved on a 4x4 board with four or more empty cells where neither probe
\* found a cell, so both probes and the search wrote and cleared cells
C8_Witness ==
    /\ event.kind = "ai_move"
    /\ game_mode = "AI_HARD"
    /\ BOARD_ROWS = 4
    /\ marks_on(event.before.board, None) >= 4
    /\ winning_cells(event.before.board, "O") = {}
    /\ winning_cells(event.before.board, "X") = {}
    /\ move_count = event.before.move_count + 1

\* the cells on which ai_move_medium can place O on the board of st, over every value
\* random.choice can give
medium_choices(st, smart) ==
    {p \in (DOMAIN st.board) \X (DOMAIN st.board) :
        \E pick \in 1 .. Len(empty_cells(st.board)) :
            ai_move_medium(st, smart, pick).board[p[1]][p[2]] # st.board[p[1]][p[2]]}

\* C14: in its smart branch ai_move_medium plays a cell that wins at once for O when one
\* exists, and O then has a line; otherwise it plays O on a cell that would win at once
\* for X when one exists; otherwise, and always in the other branch, it plays an empty
\* cell and every empty cell can be the one chosen
C14_MediumWinsBlocksOrRandom ==
    (event.kind = "ai_move" /\ game_mode = "AI_MEDIUM") =>
        LET b == event.before.board
        IN  IF event.smart /\ winning_cells(b, "O") # {}
            THEN /\ \E p \in winning_cells(b, "O") : placed_on(p)
                 /\ has_line(board, "O")
            ELSE IF event.smart /\ winning_cells(b, "X") # {}
            THEN \E p \in winning_cells(b, "X") : placed_on(p)
            ELSE /\ \E p \in (DOMAIN b) \X (DOMAIN b) : b[p[1]][p[2]] = None /\ placed_on(p)
                 /\ medium_choices(event.before, event.smart)
                        = {p \in (DOMAIN b) \X (DOMAIN b) : b[p[1]][p[2]] = None}

\* the smart branch of ai_move_medium blocked X on a 4x4 board on which O could not win
\* at once and several cells were empty
C14_Witness ==
    /\ event.kind = "ai_move"
    /\ game_mode = "AI_MEDIUM"
    /\ event.smart
    /\ BOARD_ROWS = 4
    /\ winning_cells(event.before.board, "O") = {}
    /\ winning_cells(event.before.board, "X") # {}
    /\ marks_on(event.before.board, None) >= 3
    /\ \E p \in winning_cells(event.before.board, "X") : board[p[1]][p[2]] = "O"

(***************************************************************************)
(* The match loop: rejected clicks, finished matches, fresh starts         *)
(***************************************************************************)

match_state == <<board, move_history, move_count, player>>

\* C6: in every mode a click on an occupied cell or outside the board, in a match in
\* progress, leaves the board, the move history, the move count, the player to move
\* and the tallies unchanged; in the AI modes the AI makes no move in response
C6_RejectedClickChangesNothing ==
    [][(\/ event'.kind = "click_outside"
        \/ /\ event'.kind = "click"
           /\ event'.on_mark)
       => UNCHANGED <<board, move_history, move_count, player, x_wins, o_wins, draws>>]_vars

\* in an AI mode the human has clicked a cell that holds a mark, and the match goes on
C6_Witness ==
    /\ event.kind = "click"
    /\ event.on_mark
    /\ screen = "play"
    /\ game_mode \in AI_MODES
    /\ move_count = 2 * marks_on(board, "O")
    /\ move_count > 0

\* a winning line, or no empty cell
finished(b) ==
    \/ has_line(b, "X")
    \/ has_line(b, "O")
    \/ \A r \in DOMAIN b : \A c \in DOMAIN b : b[r][c] # None

\* C9: once a move has produced a winning line or filled the board, no mark is placed,
\* no undo is applied and the side to move does not change until play_one_game starts
\* the next match; in the AI modes the AI does not reply to a human move that ends the match
C9_FinishedIsTerminal ==
    [][/\ (event'.kind # "start" /\ match_state' # match_state) => ~finished(board)
       /\ (/\ game_mode \in AI_MODES
           /\ move_history' # <<>>
           /\ move_history'[Len(move_history')][3] = "X"
           /\ ~finished(board)
           /\ finished(board'))
          => /\ SubSeq(move_history', 1, Len(move_history)) = move_history
             /\ Len(move_history') = Len(move_history) + 1
             /\ move_count' = move_count + 1
             /\ marks_on(board', "O") = marks_on(board, "O")
             /\ player' = player]_vars

\* in an AI mode the human has completed a line; the end screen runs and O has not replied
C9_Witness ==
    /\ screen = "end"
    /\ game_mode \in AI_MODES
    /\ has_line(board, "X")
    /\ move_history[Len(move_history)][3] = "X"
    /\ x_wins = 1

\* C10: the start of a match (the first one, after Restart, or by the New Game button)
\* leaves every cell empty, X to move, an empty move history and move count 0, and does
\* not change the game mode or the tallies
C10_StartIsFresh ==
    [][event'.kind \in {"start", "new_game"}
       => /\ board' = new_board(BOARD_ROWS)
          /\ player' = "X"
          /\ move_history' = <<>>
          /\ move_count' = 0
          /\ game_mode' = game_mode
          /\ <<x_wins', o_wins', draws'>> = <<x_wins, o_wins, draws>>]_vars

\* a match has been started again after a finished one: the state is fresh, the tally stays
C10_Witness ==
    /\ event.kind = "start"
    /\ x_wins + o_wins + draws > 0
    /\ game_mode \in MODES
    /\ board = new_board(BOARD_ROWS)
    /\ player = "X"
    /\ move_history = <<>>

\* C28: while the match waits for input the history agrees with the board: move_count is
\* the length of move_history and the number of occupied cells, the cells of the history
\* are pairwise distinct, each holds the recorded mark, and every other cell is empty
C28_HistoryAgreesWithBoard ==
    screen = "play"
    => /\ move_count = Len(move_history)
       /\ move_count = occupied(board)
       /\ \A i, j \in DOMAIN move_history :
             i # j => <<move_history[i][1], move_history[i][2]>>
                      # <<move_history[j][1], move_history[j][2]>>
       /\ \A i \in DOMAIN move_history :
             board[move_history[i][1]][move_history[i][2]] = move_history[i][3]
       /\ \A r \in range(0, BOARD_ROWS), c \in range(0, BOARD_COLS) :
             (\A i \in DOMAIN move_history : <<move_history[i][1], move_history[i][2]>> # <<r, c>>)
             => board[r][c] = None

\* an undo in a two-player match took back the third mark: two moves stay in the history
C28_Witness ==
    /\ screen = "play"
    /\ event.kind = "undo"
    /\ game_mode = "PVP"
    /\ Len(move_history) = 2
    /\ player = "X"
    /\ occupied(board) = 2

\* C30: a step that finishes a match adds one to exactly one tally, the one of its outcome
\* (x_wins with a line of X, o_wins with a line of O, draws with a full board and no line);
\* no other step of a match (its start, a placement that goes on, a rejected click, an
\* undo, New Game, Back to Menu) changes a tally
C30_OneTallyPerFinishedMatch ==
    [][IF screen = "play" /\ screen' = "end"
       THEN /\ <<x_wins', o_wins', draws'>> \in {<<x_wins + 1, o_wins, draws>>,
                                                <<x_wins, o_wins + 1, draws>>,
                                                <<x_wins, o_wins, draws + 1>>}
            /\ x_wins' = x_wins + 1 <=> has_line(board', "X")
            /\ o_wins' = o_wins + 1 <=> has_line(board', "O")
            /\ draws' = draws + 1 <=> (/\ is_board_full(board')
                                       /\ ~has_line(board', "X")
                                       /\ ~has_line(board', "O"))
       ELSE screen \in {"starting", "play"}
            => <<x_wins', o_wins', draws'>> = <<x_wins, o_wins, draws>>]_vars

\* a match against the AI ended in a draw on a full board and only draws was counted
C30_Witness ==
    /\ screen = "end"
    /\ event.kind = "click"
    /\ game_mode \in AI_MODES
    /\ is_board_full(board)
    /\ ~has_line(board, "X") /\ ~has_line(board, "O")
    /\ <<x_wins, o_wins, draws>> = <<0, 0, 1>>


\* C17: whenever the game waits for a human move the marks alternate from X on: there
\* are as many X as O, or one X more; X is to move exactly when there are as many; in
\* the AI modes there are always as many and X is to move
C17_MarksAlternate ==
    screen = "play" =>
        /\ player \in Marks
        /\ marks_on(board, "X") - marks_on(board, "O") \in {0, 1}
        /\ (player = "X") <=> (marks_on(board, "X") = marks_on(board, "O"))
        /\ game_mode \in AI_MODES =>
              /\ marks_on(board, "X") = marks_on(board, "O")
              /\ player = "X"

\* in a PVP match an undo has taken back an O while marks stay on the board: X has one
\* mark more and O is to move
C17_Witness ==
    /\ screen = "play"
    /\ game_mode = "PVP"
    /\ event.kind = "undo"
    /\ move_count = 3
    /\ marks_on(board, "O") = 1
    /\ player = "O"

(***************************************************************************)
(* A human placement (with the AI's reply in the AI modes) and then        *)
(* undo_last_move, on a match in progress                                  *)
(***************************************************************************)

MaxEmptyUndo == 6   \* the placement is made on boards with at most this many empty cells

\* a match in progress: nobody has a line, a cell is empty
InProgressBoards(n) ==
    {b \in PlayBoards(n) :
        /\ ~has_line(b, "X") /\ ~has_line(b, "O")
        /\ marks_on(b, None) \in 1 .. MaxEmptyUndo}

\* in the AI modes the human is to move whenever the game waits for input
InitUndo ==
    /\ InitCall(InProgressBoards(3), InProgressBoards(4), MODES)
    /\ game_mode \in AI_MODES => player = "X"

\* MOUSEBUTTONDOWN on the empty cell (cell_y, cell_x): the whole handler of the mode
human_placement(cell_y, cell_x) ==
    /\ screen = "call"
    /\ event.kind = "init"
    /\ available_square(board, cell_y, cell_x)
    /\ event' = [kind |-> "placed", before |-> match_state]
    /\ IF game_mode = "PVP"
       THEN pvp_click(cell_y, cell_x)
       ELSE \E rnd \in random_draws(cell_y, cell_x) : ai_click(cell_y, cell_x, rnd[1], rnd[2])
    /\ UNCHANGED <<BOARD_ROWS, game_mode>>

\* undo_last_move() called while the match is in progress, right away or after a placement
call_undo_last_move ==
    /\ screen = "call"
    /\ event.kind \in {"init", "placed"}
    /\ LET st == undo_last_move([board |-> board, move_history |-> move_history,
                                 move_count |-> move_count, player |-> player])
       IN  /\ board' = st.board
           /\ move_history' = st.move_history
           /\ move_count' = st.move_count
           /\ player' = st.player
    /\ event' = [kind |-> "undo", from |-> match_state,
                 placed |-> IF event.kind = "placed" THEN <<event.before>> ELSE <<>>]
    /\ UNCHANGED <<BOARD_ROWS, game_mode, x_wins, o_wins, draws, screen>>

NextUndo ==
    \/ \E p \in range(0, BOARD_ROWS) \X range(0, BOARD_COLS) : human_placement(p[1], p[2])
    \/ call_undo_last_move

SpecUndo == InitUndo /\ [][NextUndo]_vars

\* the cells of the last k moves of the history h
last_cells(h, k) == {<<h[i][1], h[i][2]>> : i \in (Len(h) - k + 1) .. Len(h)}

\* C11: undo_last_move, called in a match in progress with a non-empty history, leaves the
\* board, the history, the move count and the player to move as they were before the most
\* recent human placement: one move is removed in PVP, the AI's reply and the human move
\* before it in the AI modes, and no other cell changes
C11_UndoRestoresBeforeHumanMove ==
    (event.kind = "undo" /\ event.from[2] # <<>>) =>
        LET h == event.from[2]
            k == IF game_mode = "PVP" THEN 1 ELSE 2
        IN  /\ event.placed # <<>> => match_state = event.placed[1]
            /\ Len(h) >= k
            /\ move_history = SubSeq(h, 1, Len(h) - k)
            /\ move_count = event.from[3] - k
            /\ player = h[Len(h) - k + 1][3]
            /\ \A p \in (DOMAIN board) \X (DOMAIN board) :
                  board[p[1]][p[2]] = IF p \in last_cells(h, k) THEN None
                                      ELSE event.from[1][p[1]][p[2]]

\* in an AI mode on the 4x4 board the human placed, the AI replied, and undo took both
\* moves back while earlier moves stay
C11_Witness ==
    /\ event.kind = "undo"
    /\ event.placed # <<>>
    /\ game_mode \in AI_MODES
    /\ BOARD_ROWS = 4
    /\ Len(event.from[2]) = Len(move_history) + 2
    /\ move_history # <<>>
    /\ player = "X"

\* C26: a match is counted as a draw only when the board is full and no mark has a line;
\* a move that fills the last empty cell and completes a line ends the match as a win
\* of the mover, in every mode, for the human's move and for the AI's
C26_DrawOnlyWithoutLine ==
    event.kind = "placed" =>
        /\ draws = 1 => (/\ marks_on(board, None) = 0
                         /\ ~has_line(board, "X") /\ ~has_line(board, "O"))
        /\ \A m \in Marks :
              (marks_on(board, None) = 0 /\ has_line(board, m) /\ move_history[Len(move_history)][3] = m)
              => /\ screen = "end"
                 /\ draws = 0
                 /\ x_wins = (IF m = "X" THEN 1 ELSE 0)
                 /\ o_wins = (IF m = "O" THEN 1 ELSE 0)

\* in an AI mode on the 4x4 board the human placed without a line and the AI's reply
\* filled the last empty cell and completed a line of O: the match is a win of O
C26_Witness ==
    /\ event.kind = "placed"
    /\ game_mode \in AI_MODES
    /\ BOARD_ROWS = 4
    /\ marks_on(board, None) = 0
    /\ has_line(board, "O")
    /\ move_history[Len(move_history)][3] = "O"
    /\ o_wins = 1 /\ draws = 0 /\ x_wins = 0
    /\ screen = "end"

\* the board before the placement with the human's X on the cell of that move
after_human ==
    [event.before[1] EXCEPT ![move_history[Len(event.before[2]) + 1][1]]
                             [move_history[Len(event.before[2]) + 1][2]] = "X"]

\* C27: in the AI modes a human move that is accepted and neither wins nor fills the board
\* is followed within its handler by exactly one placement of the AI; ai_move_hard always
\* finds a move when a cell is empty
C27_OneAIReplyPerHumanMove ==
    (/\ event.kind = "placed"
     /\ game_mode \in AI_MODES
     /\ ~has_line(after_human, "X")
     /\ marks_on(after_human, None) > 0)
    => /\ Len(move_history) = Len(event.before[2]) + 2
       /\ SubSeq(move_history, 1, Len(event.before[2])) = event.before[2]
       /\ move_count = event.before[3] + 2
       /\ \E p \in (DOMAIN board) \X (DOMAIN board) :
             /\ after_human[p[1]][p[2]] = None
             /\ board = [after_human EXCEPT ![p[1]][p[2]] = "O"]
             /\ move_history[Len(move_history)] = <<p[1], p[2], "O">>

\* in AI_HARD on the 4x4 board the human placed, no cell won at once for either side, and
\* the search of ai_move_hard placed the reply; the match goes on
C27_Witness ==
    /\ event.kind = "placed"
    /\ game_mode = "AI_HARD"
    /\ BOARD_ROWS = 4
    /\ winning_cells(after_human, "O") = {}
    /\ winning_cells(after_human, "X") = {}
    /\ Len(move_history) = Len(event.before[2]) + 2
    /\ marks_on(board, "O") = marks_on(event.before[1], "O") + 1
    /\ screen = "call"

(***************************************************************************)
(* minimax called on a decided position (a winning line, or a full board) *)
(* at the depths at which a search of ai_move_hard can stand on it        *)
(***************************************************************************)

\* a mark has a line, or no cell is empty
DecidedBoards(n) == {b \in PlayBoards(n) : finished(b)}

\* ai_move_hard puts its O on a board that holds a mark and calls minimax at depth 0, and
\* every level below adds one mark: depth <= marks - 2.  On 3x3 that is at most 7; on 4x4
\* the depth limit is at most 6 unless 4 or fewer cells are empty.
SearchDepths(b) ==
    0 .. min(marks_on(b, "X") + marks_on(b, "O") - 2, IF BOARD_ROWS = 3 THEN 7 ELSE 6)

InitDecided == InitCall(DecidedBoards(3), DecidedBoards(4), {"AI_HARD"})

call_minimax_decided(depth, is_maximizing, alpha, beta, max_depth) ==
    /\ screen = "call"
    /\ event.kind = "init"
    /\ \E res \in {minimax(board, depth, is_maximizing, alpha, beta, max_depth)} :
          /\ board' = res.board
          /\ event' = [kind |-> "minimax_decided", before |-> board, depth |-> depth,
                       score |-> res.score]
    /\ UNCHANGED <<BOARD_ROWS, player, move_history, move_count, game_mode,
                   x_wins, o_wins, draws, screen>>

\* the other mark
other(m) == IF m = "X" THEN "O" ELSE "X"

\* the board b after the moves mv
with_moves(b, mv) ==
    IF mv = <<>> THEN b
    ELSE [[b EXCEPT ![mv[1][1]][mv[1][2]] = mv[1][3]] EXCEPT ![mv[2][1]][mv[2][2]] = mv[2][3]]

\* the moves that lead from the position b, on which a mark has a line, to a position a
\* search meets two levels deeper when the other side does not answer the line: none, or
\* one more mark of each side on two of the first MaxChoice empty cells of b
later_moves(b, m) ==
    {<<>>} \cup
    {mv \in {<< <<p[1], p[2], m>>, <<q[1], q[2], other(m)>> >> :
                p \in {empty_cells(b)[i] : i \in 1 .. min(MaxChoice, Len(empty_cells(b)))},
                q \in {empty_cells(b)[i] : i \in 1 .. min(MaxChoice, Len(empty_cells(b)))}} :
        /\ <<mv[1][1], mv[1][2]>> # <<mv[2][1], mv[2][2]>>
        /\ has_line(b, "O") => ~has_line(with_moves(b, mv), "X")
        /\ has_line(b, "X") => ~has_line(with_moves(b, mv), "O")}

\* a second call of minimax, on a later position on which the same mark has a line; the
\* side to move is the one that has lost
call_minimax_later(mv, depth, alpha, beta, max_depth) ==
    /\ screen = "call"
    /\ event.kind = "minimax_decided"
    /\ has_line(event.before, "O") \/ has_line(event.before, "X")
    /\ \E res \in {minimax(with_moves(board, mv), depth, has_line(board, "X"),
                            alpha, beta, max_depth)} :
          /\ board' = res.board
          /\ event' = [kind |-> "minimax_later", before |-> with_moves(board, mv),
                       depth |-> depth, score |-> res.score,
                       first |-> [before |-> event.before, depth |-> event.depth,
                                  score |-> event.score]]
    /\ move_history' = move_history \o mv
    /\ move_count' = Len(move_history')
    /\ UNCHANGED <<BOARD_ROWS, player, game_mode, x_wins, o_wins, draws, screen>>

NextDecided ==
    \/ \E depth \in SearchDepths(board), is_maximizing \in BOOLEAN, w \in Windows,
          max_depth \in DepthLimits :
           call_minimax_decided(depth, is_maximizing, w[1], w[2], max_depth)
    \/ \E mv \in later_moves(board, player) :
           \E depth \in SearchDepths(with_moves(board, mv)) :
               call_minimax_later(mv, depth, -99900, 99900, <<>>)

SpecDecided == InitDecided /\ [][NextDecided]_vars

\* C12: on a decided position minimax returns a score with the sign of the outcome for
\* the AI: above 0 when O has a line, below 0 when X has a line, 0 on a full board
\* without a line, at every depth a search reaches
C12_DecidedScoreHasSign ==
    event.kind = "minimax_decided" =>
        /\ has_line(event.before, "O") => event.score > 0
        /\ has_line(event.before, "X") => event.score < 0
        /\ (~has_line(event.before, "O") /\ ~has_line(event.before, "X")) => event.score = 0

\* C20: of two positions on which O has a line, minimax gives the strictly higher score
\* to the one evaluated at the smaller depth
C20_FasterWinScoresHigher ==
    (event.kind = "minimax_later" /\ has_line(event.before, "O")) =>
        /\ event.first.depth < event.depth => event.first.score > event.score
        /\ event.depth < event.first.depth => event.score > event.first.score

\* minimax was called on a position won by O and, two levels deeper, on that position
\* with one more X and one more O
C20_Witness ==
    /\ event.kind = "minimax_later"
    /\ event.before # event.first.before
    /\ has_line(event.first.before, "O") /\ has_line(event.before, "O")
    /\ event.depth = event.first.depth + 2
    /\ event.first.depth > 0

\* C21: of two positions on which X has a line, minimax gives the strictly higher score
\* to the one evaluated at the greater depth
C21_SlowerLossScoresHigher ==
    (event.kind = "minimax_later" /\ has_line(event.before, "X")) =>
        /\ event.first.depth < event.depth => event.first.score < event.score
        /\ event.depth < event.first.depth => event.score < event.first.score

(***************************************************************************)
(* heuristic_eval called on a board, and on the same board with the marks *)
(* exchanged                                                               *)
(***************************************************************************)

\* every O becomes X and every X becomes O
swap_marks(b) ==
    [r \in DOMAIN b |-> [c \in DOMAIN b[r] |->
        IF b[r][c] = "X" THEN "O" ELSE IF b[r][c] = "O" THEN "X" ELSE None]]

InitHeuristic == InitCall(PlayBoards(3), PlayBoards(4) \cup {new_board(4)}, {"AI_HARD"})

call_heuristic_eval ==
    /\ screen = "call"
    /\ event.kind = "init"
    /\ event' = [kind |-> "heuristic_eval", value |-> heuristic_eval(board),
                 swapped |-> heuristic_eval(swap_marks(board))]
    /\ UNCHANGED <<BOARD_ROWS, board, player, move_history, move_count, game_mode,
                   x_wins, o_wins, draws, screen>>

NextHeuristic == call_heuristic_eval

SpecHeuristic == InitHeuristic /\ [][NextHeuristic]_vars

\* C13: heuristic_eval of a 3x3 or 4x4 board with every O replaced by X and every X by O
\* is the negated heuristic_eval of the board, and heuristic_eval of the empty board is 0
C13_HeuristicAntisymmetric ==
    event.kind = "heuristic_eval" =>
        /\ event.swapped = -event.value
        /\ board = new_board(BOARD_ROWS) => event.value = 0

\* heuristic_eval was called on a 4x4 board that it values above one half in favour of O
C13_Witness ==
    /\ event.kind = "heuristic_eval"
    /\ BOARD_ROWS = 4
    /\ event.value > 50
    /\ event.swapped < -50

(***************************************************************************)
(* A match between two resets: clicks on any cell and undos, from a       *)
(* position in progress.  The event also keeps what has happened to the   *)
(* cells since the reset.                                                  *)
(***************************************************************************)

MaxEmptyCells == 1  \* the position the inputs start from has at most this many empty cells
MaxSteps == 2       \* inputs that change the board, handled from that position on

InitCells ==
    /\ InitCall({b \in InProgressBoards(3) : marks_on(b, None) <= MaxEmptyCells},
                {b \in InProgressBoards(4) : marks_on(b, None) <= MaxEmptyCells}, MODES)
    /\ game_mode \in AI_MODES => player = "X"

\* what has happened to the cells since the reset: step, the inputs that changed the
\* board; marked, the
\* cells that have held a mark; undone, the cells an undo has emptied; again, the cells
\* that went from empty to a mark after having held one; over, the cells whose mark a
\* click replaced; lost, the cells a click emptied
since_reset ==
    IF event.kind = "init"
    THEN [kind |-> "init", step |-> 0,
          marked |-> {p \in (DOMAIN board) \X (DOMAIN board) : board[p[1]][p[2]] # None},
          undone |-> {}, again |-> {}, over |-> {}, lost |-> {}]
    ELSE event

\* the cells that are a in b and satisfy the test in b2
cells_from(b, b2, a, Test(_)) ==
    {p \in (DOMAIN b) \X (DOMAIN b) : b[p[1]][p[2]] = a /\ Test(b2[p[1]][p[2]])}

\* MOUSEBUTTONDOWN on the cell (cell_y, cell_x), empty or not: the whole handler of the mode
cell_click(cell_y, cell_x) ==
    /\ screen = "call"
    /\ event.kind \in {"init", "cell_click", "cell_undo"}
    /\ since_reset.step < MaxSteps
    /\ IF game_mode = "PVP"
       THEN pvp_click(cell_y, cell_x)
       ELSE \E rnd \in random_draws(cell_y, cell_x) : ai_click(cell_y, cell_x, rnd[1], rnd[2])
    /\ event' = [kind |-> "cell_click",
                 step |-> since_reset.step + (IF board' = board THEN 0 ELSE 1),
                 marked |-> since_reset.marked \cup cells_from(board, board', None, LAMBDA v : v # None),
                 undone |-> since_reset.undone,
                 again |-> since_reset.again
                            \cup (since_reset.marked
                                    \cap cells_from(board, board', None, LAMBDA v : v # None)),
                 over |-> since_reset.over
                            \cup cells_from(board, board', "X", LAMBDA v : v = "O")
                            \cup cells_from(board, board', "O", LAMBDA v : v = "X")
                            \cup {p \in (DOMAIN board) \X (DOMAIN board) :
                                    /\ board[p[1]][p[2]] # None
                                    /\ \E i \in (Len(move_history) + 1) .. Len(move_history') :
                                          <<move_history'[i][1], move_history'[i][2]>> = p},
                 lost |-> since_reset.lost
                            \cup cells_from(board, board', "X", LAMBDA v : v = None)
                            \cup cells_from(board, board', "O", LAMBDA v : v = None)]
    /\ UNCHANGED <<BOARD_ROWS, game_mode>>

\* MOUSEBUTTONDOWN on the Undo button, or Ctrl+Z
cell_undo ==
    /\ screen = "call"
    /\ event.kind \in {"init", "cell_click", "cell_undo"}
    /\ since_reset.step < MaxSteps
    /\ LET st == undo_last_move([board |-> board, move_history |-> move_history,
                                 move_count |-> move_count, player |-> player])
       IN  /\ board' = st.board
           /\ move_history' = st.move_history
           /\ move_count' = st.move_count
           /\ player' = st.player
    /\ event' = [since_reset EXCEPT
                    !.kind = "cell_undo",
                    !.step = @ + (IF board' = board THEN 0 ELSE 1),
                    !.undone = @ \cup cells_from(board, board', "X", LAMBDA v : v = None)
                                 \cup cells_from(board, board', "O", LAMBDA v : v = None)]
    /\ UNCHANGED <<BOARD_ROWS, game_mode, x_wins, o_wins, draws, screen>>

NextCells ==
    \/ \E p \in range(0, BOARD_ROWS) \X range(0, BOARD_COLS) : cell_click(p[1], p[2])
    \/ cell_undo

SpecCells == InitCells /\ [][NextCells]_vars

\* C16 as stated: between two resets, under any human moves, AI moves and undos, no cell
\* goes from empty to a mark a second time, and no placement overwrites an occupied cell
C16_CellMarkedAtMostOnce ==
    event.kind \in {"cell_click", "cell_undo"} =>
        /\ event.again = {}
        /\ event.over = {}

\* C16 amended: between two resets no placement overwrites an occupied cell, only an undo
\* empties a cell, and a cell goes from empty to a mark a second time only after an undo
\* has emptied it
C16_CellMarkedOnceUnlessUndone ==
    event.kind \in {"cell_click", "cell_undo"} =>
        /\ event.over = {}
        /\ event.lost = {}
        /\ event.again \subseteq event.undone
        /\ \A p \in (DOMAIN board) \X (DOMAIN board) :
              board[p[1]][p[2]] # None => p \in event.marked

\* in an AI mode a move and its reply were undone, the human then placed again and the
\* AI replied: two cells that the undo had emptied hold a mark once more, and the match
\* goes on
C16_Witness ==
    /\ event.kind = "cell_click"
    /\ game_mode \in AI_MODES
    /\ screen = "call"
    /\ Cardinality(event.again) = 2
    /\ event.again \subseteq event.undone
    /\ event.over = {}

(***************************************************************************)
(* get_winning_line called on a board, also one on which a mark has       *)
(* several complete lines                                                  *)
(***************************************************************************)

\* the 4x4 board with m on the cells of U, the other mark on the cells of S
board_of(U, S, m) ==
    [r \in range(0, 4) |-> [c \in range(0, 4) |->
        IF <<r, c>> \in U THEN m
        ELSE IF <<r, c>> \in S THEN (IF m = "X" THEN "O" ELSE "X")
        ELSE None]]

\* 4x4 boards of alternating play on which a mark holds two lines and nothing else
LineBoards4 ==
    UNION { UNION { { board_of(pr[1] \cup pr[2], S, m) :
                        S \in {T \in SUBSET ((range(0, 4) \X range(0, 4)) \ (pr[1] \cup pr[2])) :
                                  Cardinality(pr[1] \cup pr[2]) - Cardinality(T)
                                      \in (IF m = "X" THEN {0, 1} ELSE {0, -1})} }
                    : pr \in {q \in Lines(4) \X Lines(4) : q[1] # q[2]} }
            : m \in Marks }

InitWinningLine ==
    InitCall(PlayBoards(3),
             PlayBoards(4) \cup {b \in LineBoards4 : ~(has_line(b, "X") /\ has_line(b, "O"))},
             {"PVP"})

call_get_winning_line(player_mark) ==
    /\ screen = "call"
    /\ event.kind = "init"
    /\ event' = [kind |-> "get_winning_line", mark |-> player_mark,
                 result |-> get_winning_line(board, player_mark)]
    /\ UNCHANGED <<BOARD_ROWS, board, player, move_history, move_count, game_mode,
                   x_wins, o_wins, draws, screen>>

NextWinningLine == \E m \in Marks : call_get_winning_line(m)

SpecWinningLine == InitWinningLine /\ [][NextWinningLine]_vars

\* the lines of an n x n board: rows from the top, columns from the left, the main
\* diagonal, the anti-diagonal
LinesInOrder(n) ==
    [k \in 1 .. (2 * n + 2) |->
        IF k <= n THEN {<<k - 1, c>> : c \in range(0, n)}
        ELSE IF k <= 2 * n THEN {<<r, k - n - 1>> : r \in range(0, n)}
        ELSE IF k = 2 * n + 1 THEN {<<i, i>> : i \in range(0, n)}
        ELSE {<<i, n - 1 - i>> : i \in range(0, n)}]

\* the places in LinesInOrder of the lines of b that hold only m
complete_lines(b, m) ==
    {k \in DOMAIN LinesInOrder(BOARD_ROWS) :
        \A p \in LinesInOrder(BOARD_ROWS)[k] : b[p[1]][p[2]] = m}

\* C18: get_winning_line gives no line when the mark has none; otherwise it gives the N
\* cells of the first complete line in the order rows from the top, columns from the
\* left, main diagonal, anti-diagonal, and all of them hold the mark
C18_FirstLineInOrder ==
    event.kind = "get_winning_line" =>
        LET full == complete_lines(board, event.mark)
        IN  IF full = {} THEN event.result = <<>>
            ELSE /\ Len(event.result) = BOARD_ROWS
                 /\ {event.result[i] : i \in DOMAIN event.result}
                        = LinesInOrder(BOARD_ROWS)[CHOOSE k \in full : \A j \in full : k <= j]
                 /\ \A i \in DOMAIN event.result :
                        board[event.result[i][1]][event.result[i][2]] = event.mark

\* on a 4x4 board the mark holds a column and a diagonal and no row: the column is given
C18_Witness ==
    /\ event.kind = "get_winning_line"
    /\ BOARD_ROWS = 4
    /\ Cardinality(complete_lines(board, event.mark)) = 2
    /\ \E k \in complete_lines(board, event.mark) : k \in 5 .. 8
    /\ \E k \in complete_lines(board, event.mark) : k \in 9 .. 10
    /\ \E c \in range(0, 4) : {event.result[i] : i \in 1 .. 4} = {<<r, c>> : r \in range(0, 4)}

\* the marks m on the line L of the board b
on_line(b, L, m) == Cardinality({p \in L : b[p[1]][p[2]] = m})

\* the worth of k marks of one kind alone on a line of n cells, in hundredths
worth(k, n) == IF k = n - 1 THEN 50 ELSE IF k = n - 2 THEN 20 ELSE 5 * k

\* the value of the line L: O alone counts for O, X alone against, both or none nothing
line_value(b, L) ==
    IF on_line(b, L, "O") > 0 /\ on_line(b, L, "X") = 0
    THEN worth(on_line(b, L, "O"), Cardinality(L))
    ELSE IF on_line(b, L, "X") > 0 /\ on_line(b, L, "O") = 0
    THEN -worth(on_line(b, L, "X"), Cardinality(L))
    ELSE 0

\* C19: heuristic_eval is the sum over the rows, the columns and the two diagonals of the
\* value of the line: for k > 0 marks O and no X, 0.5 if k = N-1, 0.2 if k = N-2, else
\* 0.05 k; the negated value for X alone; 0 for a line with both marks or none
C19_HeuristicIsSumOfLines ==
    event.kind = "heuristic_eval" =>
        event.value = SumSeq([k \in DOMAIN LinesInOrder(BOARD_ROWS) |->
                                line_value(board, LinesInOrder(BOARD_ROWS)[k])])

\* heuristic_eval was called on a 4x4 board whose anti-diagonal holds three O and no X,
\* with a line of X alone, a line of four marks of one kind and a line with both marks
C19_Witness ==
    /\ event.kind = "heuristic_eval"
    /\ BOARD_ROWS = 4
    /\ line_value(board, LinesInOrder(4)[10]) = 50
    /\ \E k \in 1 .. 10 : line_value(board, LinesInOrder(4)[k]) \in {-5, -20, -50}
    /\ \E k \in 1 .. 10 : line_value(board, LinesInOrder(4)[k]) \in {20, -20}
                            /\ on_line(board, LinesInOrder(4)[k], None) = 0
    /\ \E k \in 1 .. 10 : on_line(board, LinesInOrder(4)[k], "X") > 0
                            /\ on_line(board, LinesInOrder(4)[k], "O") > 0

(***************************************************************************)
(* One search: minimax called at depth 0 without max_depth, as            *)
(* ai_move_hard calls it, on boards that hold two marks or more            *)
(***************************************************************************)

\* the cell that the i-th move of the playing order (a, b) takes on an n x n board
order_cell(n, a, b, i) == <<((a * i + b) % (n * n)) \div n, ((a * i + b) % (n * n)) % n>>

\* the board after the first k moves of the playing order (a, b), X moving first
board_after(n, a, b, k) ==
    [r \in range(0, n) |-> [c \in range(0, n) |->
        IF \E i \in 0 .. k - 1 : order_cell(n, a, b, i) = <<r, c>> /\ i % 2 = 0 THEN "X"
        ELSE IF \E i \in 0 .. k - 1 : order_cell(n, a, b, i) = <<r, c>> /\ i % 2 = 1 THEN "O"
        ELSE None]]

\* boards of every fill from two marks (the human's first move and the AI's probe) to
\* the full board
FillBoards(n) ==
    {board_after(n, a, b, k) : a \in (IF n = 3 THEN {1, 2, 4} ELSE {3, 5}),
                               b \in {0, 5}, k \in 2 .. n * n}

InitSearch ==
    InitCall({b \in FillBoards(3) : b \in PlayBoards(3)},
             {b \in FillBoards(4) : ~(has_line(b, "X") /\ has_line(b, "O"))},
             {"AI_HARD"})

call_minimax_search(is_maximizing) ==
    /\ screen = "call"
    /\ event.kind = "init"
    /\ \E res \in {minimax(board, 0, is_maximizing, -99900, 99900, <<>>)} :
          /\ board' = res.board
          /\ event' = [kind |-> "minimax_search", before |-> board, score |-> res.score,
                       levels |-> res.levels, limits |-> res.limits, heur |-> res.heur,
                       deepest |-> res.deepest, zero |-> res.zero]
    /\ UNCHANGED <<BOARD_ROWS, player, move_history, move_count, game_mode,
                   x_wins, o_wins, draws, screen>>

NextSearch == \E is_maximizing \in BOOLEAN : call_minimax_search(is_maximizing)

SpecSearch == InitSearch /\ [][NextSearch]_vars

\* the depth limit for e empty cells on an n x n board
limit_for(n, e) ==
    IF n = 3 THEN 15
    ELSE IF e > 12 THEN 4
    ELSE IF e > 8 /\ e <= 12 THEN 5
    ELSE IF e > 4 /\ e <= 8 THEN 6
    ELSE 10

\* C22: the depth limit of a search is set at its first minimax call from the number e of
\* empty cells there and every recursive call works with the same limit: on 4x4 it is 4
\* if e > 12, 5 if 8 < e <= 12, 6 if 4 < e <= 8, 10 if e <= 4; on 3x3 it is 15
C22_DepthLimitFixedAtFirstCall ==
    event.kind = "minimax_search" =>
        event.limits = {limit_for(BOARD_ROWS, marks_on(event.before, None))}

\* a search on a 4x4 board with 13 empty cells went 4 levels down, to boards with 9 empty
\* cells, under the limit 4
C22_Witness ==
    /\ event.kind = "minimax_search"
    /\ BOARD_ROWS = 4
    /\ marks_on(event.before, None) = 13
    /\ event.levels = 4
    /\ event.limits = {4}

\* C23: in a search on the 3x3 board, and on the 4x4 board with at most 4 empty cells
\* (depth limit 10), no call stands at the depth limit, heuristic_eval is never called
\* and every value returned comes from positions with a winner or full boards
C23_ExhaustiveSearch ==
    (event.kind = "minimax_search" /\ (BOARD_ROWS = 3 \/ marks_on(event.before, None) <= 4)) =>
        /\ \A limit \in event.limits : event.levels < limit
        /\ ~event.heur

\* a search on a 4x4 board with 4 empty cells went down to a full board
C23_Witness ==
    /\ event.kind = "minimax_search"
    /\ BOARD_ROWS = 4
    /\ marks_on(event.before, None) = 4
    /\ event.levels = 4
    /\ event.limits = {10}
    /\ ~event.heur

\* C29: in a search the depth at which minimax finds a winner is below 10, so a position
\* with a winner never gets the score 0
C29_WinnerFoundBelowDepth10 ==
    event.kind = "minimax_search" => (event.deepest < 10 /\ ~event.zero)

\* a search on a 3x3 board found a winner six levels down
C29_Witness ==
    /\ event.kind = "minimax_search"
    /\ BOARD_ROWS = 3
    /\ event.deepest >= 6
    /\ ~event.zero

(***************************************************************************)
(* minimax with the full window, next to a search of the same positions   *)
(* that never leaves its enumeration early                                 *)
(***************************************************************************)

MaxEmptyPruning == 4    \* 3x3 boards have at most this many empty cells, 4x4 boards four more

\* the greatest and the least element of a set of numbers
greatest(S) == CHOOSE v \in UNION {{u \in T : \A w \in T : w <= u} : T \in {S}} : TRUE
least(S) == CHOOSE v \in UNION {{u \in T : \A w \in T : u <= w} : T \in {S}} : TRUE

\* minimax without alpha and beta: the same scores of decided positions, the same depth
\* limit and heuristic, and every empty cell tried
RECURSIVE minimax_reference(_, _, _, _)
minimax_reference(b, depth, is_maximizing, limit) ==
    IF evaluate(b) # 0 THEN terminal_score(evaluate(b), depth)
    ELSE IF is_board_full(b) THEN 0
    ELSE IF depth >= limit THEN heuristic_eval(b)
    ELSE IF is_maximizing
    THEN greatest({minimax_reference([b EXCEPT ![p[1]][p[2]] = "O"], depth + 1, FALSE, limit) :
                      p \in {q \in (DOMAIN b) \X (DOMAIN b) : b[q[1]][q[2]] = None}})
    ELSE least({minimax_reference([b EXCEPT ![p[1]][p[2]] = "X"], depth + 1, TRUE, limit) :
                   p \in {q \in (DOMAIN b) \X (DOMAIN b) : b[q[1]][q[2]] = None}})

InitPruning ==
    InitCall({b \in PlayBoards(3) : marks_on(b, None) <= MaxEmptyPruning},
             {b \in FillBoards(4) : /\ ~(has_line(b, "X") /\ has_line(b, "O"))
                                    /\ marks_on(b, None) <= MaxEmptyPruning + 4},
             {"AI_HARD"})

call_minimax_full_window(depth, is_maximizing, max_depth) ==
    /\ screen = "call"
    /\ event.kind = "init"
    /\ \E res \in {minimax(board, depth, is_maximizing, -99900, 99900, max_depth)} :
          /\ board' = res.board
          /\ event' = [kind |-> "minimax_full_window", before |-> board, depth |-> depth,
                       is_maximizing |-> is_maximizing, max_depth |-> max_depth,
                       score |-> res.score, pruned |-> res.pruned, heur |-> res.heur]
    /\ UNCHANGED <<BOARD_ROWS, player, move_history, move_count, game_mode,
                   x_wins, o_wins, draws, screen>>

NextPruning ==
    \E depth \in Depths, is_maximizing \in BOOLEAN, max_depth \in DepthLimits :
        call_minimax_full_window(depth, is_maximizing, max_depth)

SpecPruning == InitPruning /\ [][NextPruning]_vars

\* C24: minimax called with the full window returns the value of the search that uses the
\* same scores, depth limit and heuristic and never breaks out of its enumeration
C24_PruningKeepsValue ==
    event.kind = "minimax_full_window" =>
        event.score = minimax_reference(event.before, event.depth, event.is_maximizing,
                                        IF event.max_depth = <<>> THEN limit_for(BOARD_ROWS, marks_on(event.before, None))
                                        ELSE event.max_depth[1])

\* a call on a 4x4 board with seven or more empty cells and the default depth limit that
\* below which a call left its loops by a cutoff and heuristic_eval was called
C24_Witness ==
    /\ event.kind = "minimax_full_window"
    /\ BOARD_ROWS = 4
    /\ marks_on(event.before, None) >= 7
    /\ event.max_depth = <<>>
    /\ event.pruned
    /\ event.heur
    /\ event.score = minimax_reference(event.before, event.depth, event.is_maximizing, 6)

(***************************************************************************)
(* ai_move_hard on boards where O is to move, next to the values of the   *)
(* search that never leaves its enumeration early                          *)
(***************************************************************************)

MaxEmptyChoice == 9     \* boards have at most this many empty cells

\* O is to move, nobody has won, a cell is empty
ChoiceBoards3 ==
    {b \in PlayBoards(3) :
        /\ marks_on(b, "X") = marks_on(b, "O") + 1
        /\ ~has_line(b, "X") /\ ~has_line(b, "O")
        /\ marks_on(b, None) \in 1 .. MaxEmptyChoice}

ChoiceBoards4 ==
    {b \in FillBoards(4) :
        /\ marks_on(b, "X") = marks_on(b, "O") + 1
        /\ ~has_line(b, "X") /\ ~has_line(b, "O")
        /\ marks_on(b, None) \in 1 .. MaxEmptyChoice}

InitChoice == InitCall(ChoiceBoards3, ChoiceBoards4, {"AI_HARD"})

\* the value of each empty cell of b for O: the unpruned search of the board with O on it
reference_values(b) ==
    [p \in {q \in (DOMAIN b) \X (DOMAIN b) : b[q[1]][q[2]] = None} |->
        minimax_reference([b EXCEPT ![p[1]][p[2]] = "O"], 0, FALSE,
                          limit_for(BOARD_ROWS, marks_on(b, None) - 1))]

\* ai_move_hard is called; the event keeps the board it found and the unpruned values
hard_turn ==
    /\ screen = "call"
    /\ event.kind = "init"
    /\ \E ai \in {ai_move_hard(globals)} :
          /\ board' = ai.board
          /\ move_history' = ai.move_history
          /\ move_count' = ai.move_count
    /\ event' = [kind |-> "hard_move", before |-> globals, values |-> reference_values(board)]
    /\ UNCHANGED <<BOARD_ROWS, player, game_mode, x_wins, o_wins, draws, screen>>

NextChoice == hard_turn

SpecChoice == InitChoice /\ [][NextChoice]_vars

\* the place of the cell p in the order: centre, the four corners, the other cells
group_of(p) ==
    IF p = <<BOARD_ROWS \div 2, BOARD_ROWS \div 2>> THEN 0
    ELSE IF p[1] \in {0, BOARD_ROWS - 1} /\ p[2] \in {0, BOARD_ROWS - 1} THEN 1
    ELSE 2

\* p comes before q, or is q, in the order: by group, row-major within a group
not_after(p, q) ==
    \/ group_of(p) < group_of(q)
    \/ group_of(p) = group_of(q) /\ (p[1] < q[1] \/ (p[1] = q[1] /\ p[2] <= q[2]))

\* the cells of greatest value
best_cells(values) == {p \in DOMAIN values : \A q \in DOMAIN values : values[q] <= values[p]}

\* C25: when no empty cell wins at once for O or for X, ai_move_hard places O on a cell
\* whose unpruned minimax value is the greatest over the empty cells, and of those cells
\* on the first one in the order centre, corners, other cells, row-major in each group
C25_HardPlaysFirstBestMove ==
    (/\ event.kind = "hard_move"
     /\ winning_cells(event.before.board, "O") = {}
     /\ winning_cells(event.before.board, "X") = {})
    => \E p \in best_cells(event.values) :
          /\ \A q \in best_cells(event.values) : not_after(p, q)
          /\ placed_on(p)

\* ai_move_hard searched a 4x4 board with seven or more empty cells and placed O on a cell
\* of greatest value that is not the first empty cell of the order, which has a lower value
C25_Witness ==
    /\ event.kind = "hard_move"
    /\ BOARD_ROWS = 4
    /\ marks_on(event.before.board, None) >= 7
    /\ winning_cells(event.before.board, "O") = {}
    /\ winning_cells(event.before.board, "X") = {}
    /\ \E p \in best_cells(event.values) :
          /\ placed_on(p)
          /\ \E q \in DOMAIN event.values : not_after(q, p) /\ event.values[q] < event.values[p]

====
